---------------------------- MODULE Spec2Model ----------------------------
(***************************************************************************)
(* Model of nonebot_plugin_comment_analysis/__init__.py: the Bilibili      *)
(* video handler (handle_bilibili), the delivery routine (auto_video_send  *)
(* with download_video and get_file_size_mb) and the danmaku/comment CSV   *)
(* export (create_danmaku_comment_csv_async and its two fetchers).         *)
(*                                                                         *)
(* Every awaited call is one step of the coroutine that makes it; the      *)
(* asyncio event loop interleaves the steps of the coroutines and tasks.   *)
(* A call into an external collaborator (chat adapter, platform API, HTTP) *)
(* either returns or raises, chosen nondeterministically.                  *)
(***************************************************************************)
EXTENDS Integers, Sequences, FiniteSets

(***************************************************************************)
(* Program constants.                                                      *)
(***************************************************************************)
VIDEO_DURATION_MAXIMUM == 480
VIDEO_MAX_MB == 100
MiB == 1048576
max_comments == 2000

(***************************************************************************)
(* Bounds of the model.                                                    *)
(***************************************************************************)
\* chunks a streamed download writes before it must finish or fail
MaxChunks == 2
\* longest danmaku list / number of top-level replies on a comment page
MaxItems == 2

(***************************************************************************)
(* Requests, paths and the file system.                                    *)
(***************************************************************************)
Requests == {"r1", "r2"}
VideoIds == {"BV1xx411c7mD", "BV1GJ411x7h7"}
Tasks == {"video", "audio", "remote"}
StreamTasks == {"video", "audio"}
Clock == {"1700000000.25", "1700000001.5"}

None == <<>>
RemoteUrl == <<"http", "://upos.example/v.mp4">>

\* os.path.join(os.getcwd(), video_id) followed by the three f-strings
video_path(id) == <<id, "-video.m4s">>
audio_path(id) == <<id, "-audio.m4s">>
output_path(id) == <<id, "-res.mp4">>
\* os.path.join(os.getcwd(), f"{bvid}_....csv"); the Chinese words of the
\* source's literals are written in ASCII throughout
csv_path(id) == <<id, "_danmaku_comments.csv">>
\* str(time.time()) + ".mp4", joined with os.getcwd() on return
download_video_path(t) == <<t, ".mp4">>
\* f"{data_path}.jpg"; str(None) is "None"
Sidecar(p) == IF p = None THEN <<"None", ".jpg">> ELSE p \o <<".jpg">>

StreamPath(id, k) == IF k = "video" THEN video_path(id) ELSE audio_path(id)

LocalPaths ==
    {video_path(id) : id \in VideoIds} \cup {audio_path(id) : id \in VideoIds}
      \cup {output_path(id) : id \in VideoIds} \cup {csv_path(id) : id \in VideoIds}
      \cup {download_video_path(t) : t \in Clock}
AllPaths == LocalPaths \cup {Sidecar(p) : p \in LocalPaths \cup {None, RemoteUrl}}

\* the events a run may be given: a group message, a private message, or a
\* message event that is neither
EventKinds == {"group", "private", "other"}
\* send_both and upload_both: if isinstance(event, GroupMessageEvent) ...
\* elif isinstance(event, PrivateMessageEvent) ..., and no else
HasBranch(e) == e \in {"group", "private"}

\* data_path.startswith("http")
StartsWithHttp(p) == p # None /\ p[1] = "http"

VARIABLES
    pc,         \* [Requests -> label]: where each request's coroutine stands
    entry,      \* [Requests -> routine the run entered at]
    event,      \* [Requests -> kind of the event the run was given]
    vid,        \* [Requests -> VideoIds]: video_id of the request
    dur,        \* [Requests -> Int]: video_duration after page selection
    exc,        \* [Requests -> BOOLEAN]: an exception is propagating in handle_bilibili
    dl,         \* [Requests -> [Tasks -> state]]: the download coroutines
    chunks,     \* [Requests -> [Tasks -> 0..MaxChunks]]: chunks written by each
    file_name,  \* [Requests -> Clock \cup {"-"}]: download_video's file_name
    data_path,  \* [Requests -> path]: auto_video_send's data_path
    size,       \* [Requests -> Int]: bytes os.path.getsize returned (-1: not measured)
    fs,         \* [AllPaths -> SUBSET Requests]: writers of the file at a path; {} = absent
    called,     \* [Requests -> SUBSET STRING]: routines the request has called
    msgs        \* [Requests -> Seq(STRING)]: messages and uploads that went out

\* create_danmaku_comment_csv_async, run on its own
VARIABLES
    cpc,            \* [fetcher or "writer" -> label]
    api_danmaku,    \* what the danmaku endpoints answer
    api_comments,   \* what comment.get_comments answers, page by page
    danmaku_list,   \* get_danmaku_list_async's danmaku_list
    comments_list,  \* get_comments_list_async's comments_list
    page,           \* get_comments_list_async's page
    count,          \* get_comments_list_async's count
    caught,         \* fetchers whose except clause has run
    rows            \* the rows written to the CSV file

hvars == <<pc, entry, event, vid, dur, exc, dl, chunks, file_name, data_path, size, fs, called, msgs>>
csvvars == <<cpc, api_danmaku, api_comments, danmaku_list, comments_list, page, count, caught, rows>>
vars == <<hvars, csvvars>>

Exists(p) == p \in DOMAIN fs /\ fs[p] # {}
\* os.remove / os.unlink of every path of S
Unlink(f, S) == [p \in DOMAIN f |-> IF p \in S THEN {} ELSE f[p]]
\* open(p, "wb") by request r: creates the file, or truncates the one there
OpenWb(f, p, r) == [f EXCEPT ![p] = @ \cup {r}]


(***************************************************************************)
(* Pure helpers of the handler and of the delivery routine.                *)
(***************************************************************************)
\* video_info as far as the duration is concerned: 'duration', and 'pages'
\* (absent, or a list of pages each with its own 'duration', -1 for a page
\* without one)
VideoInfos ==
    [duration : {480, 700},
     pages : {<<"absent">>} \cup {<<"list", l>> : l \in {<<>>, <<481>>, <<480, 700>>, <<-1>>}}]
\* page_num: 0 without a query string, else int(p) - 1
PageNums == -1 .. 2

\* pages[page_num] with Python's indexing; -2 stands for the IndexError
PageItem(l, i) ==
    IF i >= 0 THEN l[i + 1]
    ELSE IF Len(l) + i >= 0 THEN l[Len(l) + i + 1] ELSE -2
\* pages[page_num].get('duration', video_duration) when the page exists
select_duration(info, page_num) ==
    IF info.pages[1] = "list" /\ page_num < Len(info.pages[2])
    THEN LET item == PageItem(info.pages[2], page_num)
         IN  IF item = -1 THEN info.duration ELSE item
    ELSE info.duration

\* the minutes of a duration, as the too-long notice prints them
TooLongByMinutes(d) == d \div 60 > VIDEO_DURATION_MAXIMUM \div 60
\* video_duration > VIDEO_DURATION_MAXIMUM
TooLong(d) == d > VIDEO_DURATION_MAXIMUM

\* round(size_in_bytes / (1024 * 1024), 2), in hundredths of a megabyte:
\* the quotient is exact in binary floating point and round() rounds the
\* exact value to the nearest hundredth, ties to the even one.
get_file_size_mb(bytes) ==
    LET q == MiB \div 4
        whole == 25 * (bytes \div q) + ((25 * (bytes % q)) \div q)
        rem == (25 * (bytes % q)) % q
    IN  IF 2 * rem > q \/ (2 * rem = q /\ whole % 2 = 1) THEN whole + 1 ELSE whole

\* the comparison on the exact number of bytes
ExceedsInBytes(bytes) == bytes > VIDEO_MAX_MB * MiB
\* file_size_in_mb > VIDEO_MAX_MB
UploadMode(bytes) == get_file_size_mb(bytes) > VIDEO_MAX_MB * 100

\* sizes os.path.getsize may report
Sizes == {0, 131072, 104857599, 104857600, 104857601, 104862842, 104862843, 209715200}

\* the paths auto_video_send's finally clause unlinks, without the sidecar
CleanupPathsNoSidecar(dp) == {dp}
\* for path in [data_path, f"{data_path}.jpg"]
CleanupPaths(dp) == {dp, Sidecar(dp)}

\* asyncio.gather returning on the first finished download
GatherReturnsOnFirst(r) == \E k \in StreamTasks : dl[r][k] = "done"
\* asyncio.gather returns when both downloads have returned
GatherReturns(r) == \A k \in StreamTasks : dl[r][k] = "done"
\* asyncio.gather raises as soon as one download has raised
GatherRaises(r) == \E k \in StreamTasks : dl[r][k] = "failed"

Goto(r, l) == pc' = [pc EXCEPT ![r] = l]
Send(r, m) == msgs' = [msgs EXCEPT ![r] = Append(@, m)]
Call(r, f) == called' = [called EXCEPT ![r] = @ \cup {f}]

(***************************************************************************)
(* handle_bilibili, from the metadata fetch on (a video link).             *)
(***************************************************************************)
\* video_info = await v.get_info(); the not-found reply; page selection
GetInfo(r) ==
    /\ pc[r] = "get_info"
    /\ \/ /\ Goto(r, "raised")
          /\ UNCHANGED <<dur, msgs>>
       \/ \E ok \in BOOLEAN :
            /\ IF ok THEN Send(r, "no_data") /\ Goto(r, "done")
                     ELSE UNCHANGED msgs /\ Goto(r, "raised")
            /\ UNCHANGED dur
       \/ \E info \in VideoInfos, page_num \in PageNums :
            LET d == select_duration(info, page_num)
            IN  /\ IF d = -2
                      THEN Goto(r, "raised") /\ UNCHANGED dur
                      ELSE Goto(r, "get_online") /\ dur' = [dur EXCEPT ![r] = d]
                /\ UNCHANGED msgs
    /\ UNCHANGED csvvars
    /\ UNCHANGED <<entry, event, vid, exc, dl, chunks, file_name, data_path, size, fs, called>>

\* online = await v.get_online()
GetOnline(r) ==
    /\ pc[r] = "get_online"
    /\ \E ok \in BOOLEAN : Goto(r, IF ok THEN "send_info" ELSE "raised")
    /\ UNCHANGED csvvars
    /\ UNCHANGED <<entry, event, vid, dur, exc, dl, chunks, file_name, data_path, size, fs, called, msgs>>

\* the if/else on the duration with its bili_matcher.send
SendInfo(r) ==
    /\ pc[r] = "send_info"
    /\ \E ok \in BOOLEAN :
         IF ~ok THEN Goto(r, "raised") /\ UNCHANGED msgs
         ELSE IF TooLong(dur[r])
              THEN Send(r, "info_too_long") /\ Goto(r, "export_notice")
              ELSE Send(r, "info") /\ Goto(r, "get_url")
    /\ UNCHANGED csvvars
    /\ UNCHANGED <<entry, event, vid, dur, exc, dl, chunks, file_name, data_path, size, fs, called>>

\* v.get_download_url, detect_best_streams, streams[0].url, streams[1].url
GetDownloadUrl(r) ==
    /\ pc[r] = "get_url"
    /\ Call(r, "get_download_url")
    /\ \E ok \in BOOLEAN : Goto(r, IF ok THEN "gather_start" ELSE "raised")
    /\ UNCHANGED csvvars
    /\ UNCHANGED <<entry, event, vid, dur, exc, dl, chunks, file_name, data_path, size, fs, msgs>>

\* asyncio.gather(download_b_file(video), download_b_file(audio)): both tasks created
GatherStart(r) ==
    /\ pc[r] = "gather_start"
    /\ dl' = [dl EXCEPT ![r] = [k \in Tasks |-> IF k \in StreamTasks THEN "connecting" ELSE @[k]]]
    /\ Call(r, "download_b_file")
    /\ Goto(r, "gather")
    /\ UNCHANGED csvvars
    /\ UNCHANGED <<entry, event, vid, dur, exc, chunks, file_name, data_path, size, fs, msgs>>

(***************************************************************************)
(* download_b_file(url, path, print): one task per stream.  It opens the   *)
(* HTTP stream, then the destination file, then appends the chunks.  A     *)
(* task created by asyncio.gather runs on until it returns or raises,      *)
(* whatever became of the coroutine that awaited the gather.               *)
(***************************************************************************)
DlConnect(r, k) ==
    /\ k \in StreamTasks
    /\ dl[r][k] = "connecting"
    /\ \E ok \in BOOLEAN :
         IF ok THEN /\ dl' = [dl EXCEPT ![r][k] = "writing"]
                    /\ fs' = OpenWb(fs, StreamPath(vid[r], k), r)
               ELSE /\ dl' = [dl EXCEPT ![r][k] = "failed"]
                    /\ UNCHANGED fs
    /\ UNCHANGED csvvars
    /\ UNCHANGED <<pc, entry, event, vid, dur, exc, chunks, file_name, data_path, size, called, msgs>>

DlWrite(r, k) ==
    /\ k \in StreamTasks
    /\ dl[r][k] = "writing"
    /\ chunks[r][k] < MaxChunks
    /\ chunks' = [chunks EXCEPT ![r][k] = @ + 1]
    /\ UNCHANGED csvvars
    /\ UNCHANGED <<pc, entry, event, vid, dur, exc, dl, file_name, data_path, size, fs, called, msgs>>

DlReturn(r, k) ==
    /\ k \in StreamTasks
    /\ dl[r][k] = "writing"
    /\ dl' = [dl EXCEPT ![r][k] = "done"]
    /\ UNCHANGED csvvars
    /\ UNCHANGED <<pc, entry, event, vid, dur, exc, chunks, file_name, data_path, size, fs, called, msgs>>

DlRaise(r, k) ==
    /\ k \in StreamTasks
    /\ dl[r][k] = "writing"
    /\ dl' = [dl EXCEPT ![r][k] = "failed"]
    /\ UNCHANGED csvvars
    /\ UNCHANGED <<pc, entry, event, vid, dur, exc, chunks, file_name, data_path, size, fs, called, msgs>>

(***************************************************************************)
(* handle_bilibili: the try block and its finally clause.                  *)
(***************************************************************************)
\* the gather returns: both results are in
GatherDone(r) ==
    /\ pc[r] = "gather"
    /\ GatherReturns(r)
    /\ Goto(r, "merge")
    /\ UNCHANGED csvvars
    /\ UNCHANGED <<entry, event, vid, dur, exc, dl, chunks, file_name, data_path, size, fs, called, msgs>>

\* the gather raises the first exception; the other task is left running
GatherRaise(r) ==
    /\ pc[r] = "gather"
    /\ GatherRaises(r)
    /\ exc' = [exc EXCEPT ![r] = TRUE]
    /\ Goto(r, "hb_finally")
    /\ UNCHANGED csvvars
    /\ UNCHANGED <<entry, event, vid, dur, dl, chunks, file_name, data_path, size, fs, called, msgs>>

\* merge_file_to_mp4 fails when one of its two inputs is missing
merge_inputs_present(f, v, a) == f[v] # {} /\ f[a] # {}
\* merge_file_to_mp4 creates exactly one file, at output_path, and leaves
\* its inputs alone
merge_file_to_mp4(f, o, r) == OpenWb(f, o, r)

\* await merge_file_to_mp4(video_path, audio_path, output_path); on success
\* the call of auto_video_send(event, output_path) binds data_path
Merge(r) ==
    /\ pc[r] = "merge"
    /\ Call(r, "merge_file_to_mp4")
    /\ \E ok \in BOOLEAN :
         IF ok /\ merge_inputs_present(fs, video_path(vid[r]), audio_path(vid[r]))
         THEN /\ fs' = merge_file_to_mp4(fs, output_path(vid[r]), r)
              /\ data_path' = [data_path EXCEPT ![r] = output_path(vid[r])]
              /\ Goto(r, "avs_bot")
              /\ UNCHANGED exc
         ELSE /\ exc' = [exc EXCEPT ![r] = TRUE]
              /\ Goto(r, "hb_finally")
              /\ UNCHANGED <<fs, data_path>>
    /\ UNCHANGED csvvars
    /\ UNCHANGED <<entry, event, vid, dur, dl, chunks, file_name, size, msgs>>

\* finally: for f in [video_path, audio_path]: if os.path.exists(f): os.remove(f)
HbFinally(r) ==
    /\ pc[r] = "hb_finally"
    /\ fs' = Unlink(fs, {video_path(vid[r]), audio_path(vid[r])})
    /\ Goto(r, IF exc[r] THEN "raised" ELSE "export_notice")
    /\ UNCHANGED csvvars
    /\ UNCHANGED <<entry, event, vid, dur, exc, dl, chunks, file_name, data_path, size, called, msgs>>

(***************************************************************************)
(* auto_video_send(event, data_path).                                      *)
(***************************************************************************)
\* bot = current_bot.get(); the test for a remote data_path, where
\* download_video starts with file_name = str(time.time()) + ".mp4"
AvsGetBot(r) ==
    /\ pc[r] = "avs_bot"
    /\ Call(r, "auto_video_send")
    /\ \E ok \in BOOLEAN :
         IF ~ok THEN Goto(r, "avs_finally") /\ UNCHANGED <<dl, file_name>>
         ELSE IF StartsWithHttp(data_path[r])
              THEN /\ \E t \in Clock : file_name' = [file_name EXCEPT ![r] = t]
                   /\ dl' = [dl EXCEPT ![r]["remote"] = "connecting"]
                   /\ Goto(r, "avs_download")
              ELSE Goto(r, "avs_size") /\ UNCHANGED <<dl, file_name>>
    /\ UNCHANGED csvvars
    /\ UNCHANGED <<entry, event, vid, dur, exc, chunks, data_path, size, fs, msgs>>

\* download_video: client.stream(...) and aiofiles.open(file_name, "wb")
DvConnect(r) ==
    /\ pc[r] = "avs_download"
    /\ dl[r]["remote"] = "connecting"
    /\ \E ok \in BOOLEAN :
         IF ok THEN /\ dl' = [dl EXCEPT ![r]["remote"] = "writing"]
                    /\ fs' = OpenWb(fs, download_video_path(file_name[r]), r)
                    /\ UNCHANGED pc
               ELSE /\ dl' = [dl EXCEPT ![r]["remote"] = "failed"]
                    /\ Goto(r, "avs_finally")
                    /\ UNCHANGED fs
    /\ UNCHANGED csvvars
    /\ UNCHANGED <<entry, event, vid, dur, exc, chunks, file_name, data_path, size, called, msgs>>

\* download_video: await f.write(chunk)
DvWrite(r) ==
    /\ pc[r] = "avs_download"
    /\ dl[r]["remote"] = "writing"
    /\ chunks[r]["remote"] < MaxChunks
    /\ chunks' = [chunks EXCEPT ![r]["remote"] = @ + 1]
    /\ UNCHANGED csvvars
    /\ UNCHANGED <<pc, entry, event, vid, dur, exc, dl, file_name, data_path, size, fs, called, msgs>>

\* download_video returns os.path.join(os.getcwd(), file_name), bound to data_path
DvReturn(r) ==
    /\ pc[r] = "avs_download"
    /\ dl[r]["remote"] = "writing"
    /\ dl' = [dl EXCEPT ![r]["remote"] = "done"]
    /\ data_path' = [data_path EXCEPT ![r] = download_video_path(file_name[r])]
    /\ Goto(r, "avs_size")
    /\ UNCHANGED csvvars
    /\ UNCHANGED <<entry, event, vid, dur, exc, chunks, file_name, size, fs, called, msgs>>

\* download_video raises in mid-stream: data_path keeps the URL
DvRaise(r) ==
    /\ pc[r] = "avs_download"
    /\ dl[r]["remote"] = "writing"
    /\ dl' = [dl EXCEPT ![r]["remote"] = "failed"]
    /\ Goto(r, "avs_finally")
    /\ UNCHANGED csvvars
    /\ UNCHANGED <<entry, event, vid, dur, exc, chunks, file_name, data_path, size, fs, called, msgs>>

\* file_size_in_mb = get_file_size_mb(data_path) and the test against VIDEO_MAX_MB;
\* os.path.getsize raises for None and for a missing file
AvsSize(r) ==
    /\ pc[r] = "avs_size"
    /\ IF ~Exists(data_path[r])
       THEN Goto(r, "avs_finally") /\ UNCHANGED size
       ELSE \E b \in Sizes :
              /\ size' = [size EXCEPT ![r] = b]
              /\ Goto(r, IF UploadMode(b) THEN "avs_notice" ELSE "avs_inline")
    /\ UNCHANGED csvvars
    /\ UNCHANGED <<entry, event, vid, dur, exc, dl, chunks, file_name, data_path, fs, called, msgs>>

\* await bot.send(event, Message("... too big, trying to send as a file ..."))
AvsNotice(r) ==
    /\ pc[r] = "avs_notice"
    /\ \E ok \in BOOLEAN :
         IF ok THEN Send(r, "notice_too_big") /\ Goto(r, "avs_upload")
               ELSE UNCHANGED msgs /\ Goto(r, "avs_finally")
    /\ UNCHANGED csvvars
    /\ UNCHANGED <<entry, event, vid, dur, exc, dl, chunks, file_name, data_path, size, fs, called>>

\* await upload_both(bot, event, data_path, basename); return
AvsUpload(r) ==
    /\ pc[r] = "avs_upload"
    /\ \E ok \in BOOLEAN :
         IF ok /\ HasBranch(event[r]) THEN Send(r, "upload_video") ELSE UNCHANGED msgs
    /\ Goto(r, "avs_finally")
    /\ UNCHANGED csvvars
    /\ UNCHANGED <<entry, event, vid, dur, exc, dl, chunks, file_name, data_path, size, fs, called>>

\* await send_both(bot, event, MessageSegment.video(f'file://{data_path}'));
\* the chat client may leave a thumbnail beside the file it was given
AvsInline(r) ==
    /\ pc[r] = "avs_inline"
    /\ \E ok \in BOOLEAN :
         IF ok /\ HasBranch(event[r]) THEN Send(r, "video_inline") ELSE UNCHANGED msgs
    /\ \E thumb \in BOOLEAN :
         IF thumb /\ HasBranch(event[r])
         THEN fs' = OpenWb(fs, Sidecar(data_path[r]), r) ELSE UNCHANGED fs
    /\ Goto(r, "avs_finally")
    /\ UNCHANGED csvvars
    /\ UNCHANGED <<entry, event, vid, dur, exc, dl, chunks, file_name, data_path, size, called>>

\* except Exception: print(...); finally: unlink data_path and its .jpg if they
\* exist; the locals go out of scope and control returns to the caller
AvsFinally(r) ==
    /\ pc[r] = "avs_finally"
    /\ fs' = Unlink(fs, CleanupPaths(data_path[r]))
    /\ size' = [size EXCEPT ![r] = -1]
    /\ Goto(r, IF entry[r] = "handle_bilibili" THEN "hb_finally" ELSE "avs_returned")
    /\ UNCHANGED csvvars
    /\ UNCHANGED <<entry, event, vid, dur, exc, dl, chunks, file_name, data_path, called, msgs>>

(***************************************************************************)
(* handle_bilibili: the export of danmaku and comments, the AI summary.    *)
(***************************************************************************)
\* await bili_matcher.send("exporting danmaku and comments ...")
ExportNotice(r) ==
    /\ pc[r] = "export_notice"
    /\ Call(r, "export")
    /\ \E ok \in BOOLEAN :
         IF ok THEN Send(r, "exporting") /\ Goto(r, "csv_fetch")
               ELSE UNCHANGED msgs /\ Goto(r, "export_except")
    /\ UNCHANGED csvvars
    /\ UNCHANGED <<entry, event, vid, dur, exc, dl, chunks, file_name, data_path, size, fs>>

\* create_danmaku_comment_csv_async: the gather of the two fetchers, which
\* swallow their own exceptions
CsvFetch(r) ==
    /\ pc[r] = "csv_fetch"
    /\ Call(r, "create_danmaku_comment_csv_async")
    /\ Goto(r, "csv_open")
    /\ UNCHANGED csvvars
    /\ UNCHANGED <<entry, event, vid, dur, exc, dl, chunks, file_name, data_path, size, fs, msgs>>

\* aiofiles.open(file_path, "w", ...)
CsvOpen(r) ==
    /\ pc[r] = "csv_open"
    /\ \E ok \in BOOLEAN :
         IF ok THEN fs' = OpenWb(fs, csv_path(vid[r]), r) /\ Goto(r, "csv_write")
               ELSE UNCHANGED fs /\ Goto(r, "export_except")
    /\ UNCHANGED csvvars
    /\ UNCHANGED <<entry, event, vid, dur, exc, dl, chunks, file_name, data_path, size, called, msgs>>

\* the header row and the zipped rows; the file is closed and its path returned
CsvWrite(r) ==
    /\ pc[r] = "csv_write"
    /\ \E ok \in BOOLEAN : Goto(r, IF ok THEN "csv_upload" ELSE "export_except")
    /\ UNCHANGED csvvars
    /\ UNCHANGED <<entry, event, vid, dur, exc, dl, chunks, file_name, data_path, size, fs, called, msgs>>

\* await upload_both(bot, event, csv_file_path, basename); os.remove(csv_file_path)
CsvUpload(r) ==
    /\ pc[r] = "csv_upload"
    /\ \E ok \in BOOLEAN :
         \* for an event with no branch upload_both returns having done nothing
         LET returns == ok \/ ~HasBranch(event[r])
         IN  /\ IF returns /\ HasBranch(event[r])
                   THEN Send(r, "upload_csv") ELSE UNCHANGED msgs
             /\ IF returns /\ Exists(csv_path(vid[r]))
                   THEN fs' = Unlink(fs, {csv_path(vid[r])}) /\ Goto(r, "ai")
                   ELSE UNCHANGED fs /\ Goto(r, "export_except")
    /\ UNCHANGED csvvars
    /\ UNCHANGED <<entry, event, vid, dur, exc, dl, chunks, file_name, data_path, size, called>>

\* except Exception: print(...); await bili_matcher.send("export failed")
ExportExcept(r) ==
    /\ pc[r] = "export_except"
    /\ \E ok \in BOOLEAN :
         IF ok THEN Send(r, "apology") /\ Goto(r, "ai")
               ELSE UNCHANGED msgs /\ Goto(r, "raised")
    /\ UNCHANGED csvvars
    /\ UNCHANGED <<entry, event, vid, dur, exc, dl, chunks, file_name, data_path, size, fs, called>>

\* if BILI_SESSDATA: get_cid, get_ai_conclusion, send_forward_both
AiSummary(r) ==
    /\ pc[r] = "ai"
    /\ \E outcome \in {"none", "sent", "raised"} :
         /\ IF outcome = "sent" THEN Send(r, "ai_summary") ELSE UNCHANGED msgs
         /\ Goto(r, IF outcome = "raised" THEN "raised" ELSE "done")
    /\ UNCHANGED csvvars
    /\ UNCHANGED <<entry, event, vid, dur, exc, dl, chunks, file_name, data_path, size, fs, called>>

(***************************************************************************)
(* Specifications.                                                         *)
(***************************************************************************)
NoFiles == [p \in AllPaths |-> {}]

InitCommon ==
    /\ dur = [r \in Requests |-> 0]
    /\ exc = [r \in Requests |-> FALSE]
    /\ dl = [r \in Requests |-> [k \in Tasks |-> "idle"]]
    /\ chunks = [r \in Requests |-> [k \in Tasks |-> 0]]
    /\ file_name = [r \in Requests |-> "-"]
    /\ size = [r \in Requests |-> -1]
    /\ called = [r \in Requests |-> {}]
    /\ msgs = [r \in Requests |-> <<>>]

\* no export is running on its own
InitCsvIdle ==
    /\ cpc = [t \in {"danmaku", "comments", "writer"} |-> "absent"]
    /\ api_danmaku = [ok |-> FALSE, texts |-> <<>>]
    /\ api_comments = [total |-> 0, pages |-> <<>>]
    /\ danmaku_list = <<>>
    /\ comments_list = <<>>
    /\ page = 1
    /\ count = 0
    /\ caught = {}
    /\ rows = <<>>

\* one chat message with a video link is handled
Init ==
    /\ InitCommon
    /\ event \in [Requests -> EventKinds]
    /\ event["r2"] = "group"
    /\ InitCsvIdle
    /\ pc = [r \in Requests |-> IF r = "r1" THEN "get_info" ELSE "absent"]
    /\ entry = [r \in Requests |-> "handle_bilibili"]
    /\ vid \in [Requests -> VideoIds]
    /\ vid["r2"] = vid["r1"]
    /\ data_path = [r \in Requests |-> None]
    /\ fs = NoFiles

Step(r) ==
    \/ GetInfo(r) \/ GetOnline(r) \/ SendInfo(r) \/ GetDownloadUrl(r)
    \/ GatherStart(r)
    \/ \E k \in StreamTasks : DlConnect(r, k) \/ DlWrite(r, k) \/ DlReturn(r, k) \/ DlRaise(r, k)
    \/ GatherDone(r) \/ GatherRaise(r) \/ Merge(r)
    \/ AvsGetBot(r) \/ AvsSize(r) \/ AvsNotice(r) \/ AvsUpload(r) \/ AvsInline(r) \/ AvsFinally(r)
    \/ HbFinally(r)
    \/ ExportNotice(r) \/ CsvFetch(r) \/ CsvOpen(r) \/ CsvWrite(r) \/ CsvUpload(r)
    \/ ExportExcept(r) \/ AiSummary(r)

Next == \E r \in Requests : Step(r)

Spec == Init /\ [][Next]_vars

\* two chat messages with video links are handled on the same event loop;
\* both have sent their information message and are followed through the
\* video pipeline, up to the end of the try statement
InitConc ==
    /\ InitCsvIdle
    /\ pc = [r \in Requests |-> "get_url"]
    /\ entry = [r \in Requests |-> "handle_bilibili"]
    /\ vid \in [Requests -> VideoIds]
    /\ vid["r1"] = "BV1xx411c7mD"
    /\ event = [r \in Requests |-> "group"]
    /\ dur = [r \in Requests |-> VIDEO_DURATION_MAXIMUM]
    /\ exc = [r \in Requests |-> FALSE]
    /\ dl = [r \in Requests |-> [k \in Tasks |-> "idle"]]
    /\ chunks = [r \in Requests |-> [k \in Tasks |-> 0]]
    /\ file_name = [r \in Requests |-> "-"]
    /\ data_path = [r \in Requests |-> None]
    /\ size = [r \in Requests |-> -1]
    /\ fs = NoFiles
    /\ called = [r \in Requests |-> {}]
    /\ msgs = [r \in Requests |-> <<"info">>]

StepConc(r) ==
    \/ GetDownloadUrl(r) \/ GatherStart(r)
    \/ \E k \in StreamTasks : DlConnect(r, k) \/ DlWrite(r, k) \/ DlReturn(r, k) \/ DlRaise(r, k)
    \/ GatherDone(r) \/ GatherRaise(r) \/ Merge(r)
    \/ AvsGetBot(r) \/ AvsSize(r) \/ AvsNotice(r) \/ AvsUpload(r) \/ AvsInline(r) \/ AvsFinally(r)
    \/ HbFinally(r)

NextConc == \E r \in Requests : StepConc(r)

SpecConc == InitConc /\ [][NextConc]_vars

\* one call of auto_video_send with a local path, a URL or None
InitSend ==
    /\ InitCommon
    /\ event \in [Requests -> EventKinds]
    /\ event["r2"] = "group"
    /\ InitCsvIdle
    /\ pc = [r \in Requests |-> IF r = "r1" THEN "avs_bot" ELSE "absent"]
    /\ entry = [r \in Requests |-> "auto_video_send"]
    /\ vid \in [Requests -> VideoIds]
    /\ vid["r2"] = vid["r1"]
    /\ data_path \in [Requests -> {output_path(vid["r1"]), RemoteUrl, None}]
    /\ data_path["r2"] = None
    /\ \E present \in SUBSET (IF data_path["r1"] = RemoteUrl THEN {}
                                ELSE CleanupPaths(data_path["r1"]) \cap AllPaths) :
         fs = [p \in AllPaths |-> IF p \in present THEN {"r1"} ELSE {}]

StepSend(r) ==
    \/ AvsGetBot(r)
    \/ DvConnect(r) \/ DvWrite(r) \/ DvReturn(r) \/ DvRaise(r)
    \/ AvsSize(r) \/ AvsNotice(r) \/ AvsUpload(r) \/ AvsInline(r) \/ AvsFinally(r)

NextSend == \E r \in Requests : StepSend(r)

SpecSend == InitSend /\ [][NextSend]_vars

(***************************************************************************)
(* create_danmaku_comment_csv_async(bvid, aid) with its two fetchers.      *)
(***************************************************************************)
\* replies a comment page holds at most (the API's page size)
PageSize == MaxItems

Names == <<"amy", "bo", "cy", "di">>
Pick(i) == Names[((i - 1) % 4) + 1]

\* the texts of the <d> elements of the danmaku XML
DanmakuTexts(n) == [i \in 1 .. n |-> "dm-" \o Pick(i)]

\* f"{r['member']['uname']}:{r['content']['message']},<likes>:{r['like']}"
FormatComment(p, j) == Pick((p - 1) * PageSize + j) \o ":" \o "nice" \o ",likes:" \o "3"
\* f"<reply>@{r['member']['uname']}: {reply['content']['message']}"
FormatReply(p, j, i) == "reply@" \o Pick((p - 1) * PageSize + j) \o ": " \o "thanks"

\* a top-level reply is given by its 'replies': -1 for null, else their number
SubCounts == {-1, 0, 1}
RECURSIVE SeqsUpTo(_, _)
SeqsUpTo(S, n) ==
    IF n = 0 THEN {<<>>}
    ELSE LET shorter == SeqsUpTo(S, n - 1)
         IN  shorter \cup {Append(q, x) : q \in {t \in shorter : Len(t) = n - 1}, x \in S}

\* an answer of comment.get_comments: an exception, or the 'replies' of the page
PageAnswers ==
    {[ok |-> FALSE, replies |-> <<>>]}
      \cup {[ok |-> TRUE, replies |-> q] : q \in SeqsUpTo(SubCounts, PageSize)}

\* res of page p; a page past the last one the API holds has no replies
ApiPage(p) ==
    IF p <= Len(api_comments.pages) THEN api_comments.pages[p]
    ELSE [ok |-> TRUE, replies |-> <<>>]

\* what the for loop over the replies of page p appends, from reply j on,
\* up to the reply whose 'replies' is null: iterating None raises TypeError
RECURSIVE Appended(_, _, _)
Appended(p, replies, j) ==
    IF j > Len(replies) THEN <<>>
    ELSE IF replies[j] = -1 THEN <<FormatComment(p, j)>>
    ELSE <<FormatComment(p, j)>> \o [i \in 1 .. replies[j] |-> FormatReply(p, j, i)]
           \o Appended(p, replies, j + 1)
LoopRaises(replies) == \E j \in 1 .. Len(replies) : replies[j] = -1

Max(a, b) == IF a >= b THEN a ELSE b
Min(a, b) == IF a <= b THEN a ELSE b

\* zip(danmakus, comments): stops at the shorter list
zip(a, b, fill) == [i \in 1 .. Min(Len(a), Len(b)) |-> <<a[i], b[i]>>]
\* itertools.zip_longest(danmakus, comments, fillvalue="")
zip_longest(a, b, fill) ==
    [i \in 1 .. Max(Len(a), Len(b)) |->
        <<IF i <= Len(a) THEN a[i] ELSE fill, IF i <= Len(b) THEN b[i] ELSE fill>>]

\* get_danmaku_list_async: the two GETs, the XML parse, the extend; any
\* exception is caught and the list returned as it stands
FetchDanmaku ==
    /\ cpc["danmaku"] = "run"
    /\ IF api_danmaku.ok
       THEN danmaku_list' = danmaku_list \o api_danmaku.texts /\ UNCHANGED caught
       ELSE caught' = caught \cup {"danmaku"} /\ UNCHANGED danmaku_list
    /\ cpc' = [cpc EXCEPT !["danmaku"] = "done"]
    /\ UNCHANGED <<api_danmaku, api_comments, comments_list, page, count, rows>>
    /\ UNCHANGED hvars

\* get_comments_list_async: one turn of the while loop
FetchCommentsPage ==
    /\ cpc["comments"] = "run"
    /\ IF ~(count < max_comments)
       THEN /\ cpc' = [cpc EXCEPT !["comments"] = "done"]
            /\ UNCHANGED <<comments_list, page, count, caught>>
       ELSE LET res == ApiPage(page)
                new == Appended(page, res.replies, 1)
            IN  IF ~res.ok
                THEN /\ caught' = caught \cup {"comments"}
                     /\ cpc' = [cpc EXCEPT !["comments"] = "done"]
                     /\ UNCHANGED <<comments_list, page, count>>
                ELSE IF res.replies = <<>>
                THEN /\ cpc' = [cpc EXCEPT !["comments"] = "done"]
                     /\ UNCHANGED <<comments_list, page, count, caught>>
                ELSE /\ comments_list' = comments_list \o new
                     /\ count' = count + Len(new)
                     /\ IF LoopRaises(res.replies)
                        THEN /\ caught' = caught \cup {"comments"}
                             /\ cpc' = [cpc EXCEPT !["comments"] = "done"]
                             /\ UNCHANGED page
                        ELSE IF page * PageSize >= api_comments.total
                        THEN /\ cpc' = [cpc EXCEPT !["comments"] = "done"]
                             /\ UNCHANGED <<page, caught>>
                        ELSE /\ page' = page + 1
                             /\ UNCHANGED <<cpc, caught>>
    /\ UNCHANGED <<api_danmaku, api_comments, danmaku_list, rows>>
    /\ UNCHANGED hvars

\* the header row ["<danmaku>", "<comment>"] and the zipped rows, in the order
\* the writer is given them
RowsToWrite ==
    <<<<"danmaku", "comment">>>> \o zip_longest(danmaku_list, comments_list, "")

\* the gather has both lists: async with aiofiles.open(file_path, "w", ...)
OpenCsv ==
    /\ cpc["writer"] = "wait"
    /\ cpc["danmaku"] = "done" /\ cpc["comments"] = "done"
    /\ \E ok \in BOOLEAN :
         IF ok THEN /\ fs' = OpenWb(fs, csv_path(vid["r1"]), "r1")
                    /\ cpc' = [cpc EXCEPT !["writer"] = "writing"]
               ELSE /\ cpc' = [cpc EXCEPT !["writer"] = "raised"]
                    /\ UNCHANGED fs
    /\ UNCHANGED <<api_danmaku, api_comments, danmaku_list, comments_list, page, count, caught, rows>>
    /\ UNCHANGED <<pc, entry, event, vid, dur, exc, dl, chunks, file_name, data_path, size, called, msgs>>

\* await writer.writerow(...): one row per step; a write that raises leaves
\* the file with the rows written so far
WriteRow ==
    /\ cpc["writer"] = "writing"
    /\ Len(rows) < Len(RowsToWrite)
    /\ \E ok \in BOOLEAN :
         IF ok THEN /\ rows' = Append(rows, RowsToWrite[Len(rows) + 1])
                    /\ UNCHANGED cpc
               ELSE /\ cpc' = [cpc EXCEPT !["writer"] = "raised"]
                    /\ UNCHANGED rows
    /\ UNCHANGED <<api_danmaku, api_comments, danmaku_list, comments_list, page, count, caught>>
    /\ UNCHANGED hvars

\* the async with block ends: the file is closed and file_path returned
CloseCsv ==
    /\ cpc["writer"] = "writing"
    /\ Len(rows) = Len(RowsToWrite)
    /\ \E ok \in BOOLEAN :
         cpc' = [cpc EXCEPT !["writer"] = IF ok THEN "written" ELSE "raised"]
    /\ UNCHANGED <<api_danmaku, api_comments, danmaku_list, comments_list, page, count, caught, rows>>
    /\ UNCHANGED hvars

InitCsv ==
    /\ InitCommon
    /\ pc = [r \in Requests |-> "absent"]
    /\ entry = [r \in Requests |-> "create_danmaku_comment_csv_async"]
    /\ event = [r \in Requests |-> "group"]
    /\ vid \in [Requests -> VideoIds]
    /\ vid["r1"] = vid["r2"]
    /\ data_path = [r \in Requests |-> None]
    /\ fs = NoFiles
    /\ cpc = [t \in {"danmaku", "comments", "writer"} |-> IF t = "writer" THEN "wait" ELSE "run"]
    /\ api_danmaku \in {[ok |-> FALSE, texts |-> <<>>]}
                         \cup {[ok |-> TRUE, texts |-> DanmakuTexts(n)] : n \in 0 .. MaxItems}
    /\ api_comments \in [total : {0, PageSize, PageSize + 1},
                         pages : [{1, 2} -> PageAnswers]]
    /\ danmaku_list = <<>>
    /\ comments_list = <<>>
    /\ page = 1
    /\ count = 0
    /\ caught = {}
    /\ rows = <<>>

NextCsv == FetchDanmaku \/ FetchCommentsPage \/ OpenCsv \/ WriteRow \/ CloseCsv

SpecCsv == InitCsv /\ [][NextCsv]_vars

(***************************************************************************)
(* Properties.                                                             *)
(***************************************************************************)
Exited(r) == pc[r] \in {"done", "raised"}
InDelivery(r) == pc[r] \in {"avs_bot", "avs_size", "avs_notice", "avs_upload", "avs_inline"}
VideoPipelineCalls == {"get_download_url", "download_b_file", "merge_file_to_mp4", "auto_video_send"}
Stopped(r, k) == dl[r][k] \in {"done", "failed"}
Contains(q, m) == \E i \in 1 .. Len(q) : q[i] = m
IsPrefix(a, b) == Len(a) <= Len(b) /\ \A i \in 1 .. Len(a) : a[i] = b[i]

\* C1: when handle_bilibili has exited, by return or by exception, no
\* temporary file exists: the files are those that existed before it started
\* (none).
C1_NoTempFileAfterExit ==
    \A r \in Requests : Exited(r) => \A p \in AllPaths : ~Exists(p)

\* C2: the steps of one request are ordered.  A download has got as far as
\* opening its file only when both downloads have been started; the merge has
\* been called only when both downloads have returned; delivery is under way
\* only after a merge that raised nothing; and until delivery has completed or
\* failed the stream files and the merged file have not been removed.
C2_PipelineOrder ==
    \A r \in Requests :
        /\ (\E k \in StreamTasks : dl[r][k] \in {"writing", "done", "failed"})
              => \A k \in StreamTasks : dl[r][k] # "idle"
        /\ "merge_file_to_mp4" \in called[r] => \A k \in StreamTasks : dl[r][k] = "done"
        /\ (InDelivery(r) \/ "auto_video_send" \in called[r])
              => "merge_file_to_mp4" \in called[r] /\ ~exc[r]
        /\ (pc[r] = "merge" \/ InDelivery(r) \/ pc[r] = "avs_finally")
              => Exists(video_path(vid[r])) /\ Exists(audio_path(vid[r]))
        /\ InDelivery(r) => Exists(output_path(vid[r]))
        /\ pc[r] \in {"get_info", "get_online", "send_info", "get_url", "gather_start", "gather", "merge"}
              => "auto_video_send" \notin called[r]

\* C2 witness: a request that went through download, merge and inline
\* delivery and whose finally clause has removed the stream files.
C2_Witness ==
    /\ pc["r1"] = "export_notice"
    /\ VideoPipelineCalls \subseteq called["r1"]
    /\ Contains(msgs["r1"], "video_inline")
    /\ ~Exists(video_path(vid["r1"])) /\ ~Exists(audio_path(vid["r1"]))

\* C3: once the size is measured, upload mode (notice, then file upload) is
\* chosen exactly when the size in bytes exceeds VIDEO_MAX_MB * 1024 * 1024.
C3_UploadIffOverThreshold ==
    \A r \in Requests :
        pc[r] \in {"avs_notice", "avs_upload", "avs_inline"}
            => (pc[r] \in {"avs_notice", "avs_upload"} <=> ExceedsInBytes(size[r]))

\* C4: when auto_video_send has returned, no exception is propagating to its
\* caller and neither the file at data_path nor its .jpg sidecar exists,
\* whichever delivery step failed and whichever of the two existed.
C4_DeliveryFailuresContained ==
    \A r \in Requests :
        pc[r] = "avs_returned"
            => /\ ~exc[r]
               /\ ~Exists(data_path[r])
               /\ ~Exists(Sidecar(data_path[r]))

\* C4 witness: upload mode whose upload failed after the notice went out (the
\* early return), with the artifact given as a local path.
C4_Witness ==
    /\ pc["r1"] = "avs_returned"
    /\ data_path["r1"] = output_path(vid["r1"])
    /\ msgs["r1"] = <<"notice_too_big">>

\* C5: a request whose stream download or merge failed has nevertheless
\* attempted the export by the time the handler exits.
C5_ExportAttemptedAfterPipelineFailure ==
    \A r \in Requests : (Exited(r) /\ exc[r]) => "export" \in called[r]

\* C6 (as claimed): a request whose duration exceeds VIDEO_DURATION_MAXIMUM
\* sends nothing but the information message with the too-long notice, calls
\* none of the video pipeline and has no temporary file at any point.
C6_TooLongOnlyInfoAndNoFile ==
    \A r \in Requests :
        dur[r] > VIDEO_DURATION_MAXIMUM
            => /\ called[r] \cap VideoPipelineCalls = {}
               /\ msgs[r] \in {<<>>, <<"info_too_long">>}
               /\ \A p \in AllPaths : ~Exists(p)

\* C6 (amended): a request whose duration exceeds VIDEO_DURATION_MAXIMUM calls
\* none of get_download_url, download_b_file, merge_file_to_mp4 and
\* auto_video_send, never has a stream file, a merged file or a sidecar, and
\* the first message it sends is the information message with the too-long
\* notice; the export still runs, with its messages and its CSV file.
C6_TooLongSkipsVideoPipeline ==
    \A r \in Requests :
        dur[r] > VIDEO_DURATION_MAXIMUM
            => /\ called[r] \cap VideoPipelineCalls = {}
               /\ \A p \in AllPaths : Exists(p) => p = csv_path(vid[r])
               /\ msgs[r] # <<>> => msgs[r][1] = "info_too_long"
               /\ ~Contains(msgs[r], "info")
               /\ \A k \in Tasks : dl[r][k] = "idle"

\* C6 witness: a 700 s video against the maximum of 480 s whose export was
\* uploaded.
C6_Witness ==
    /\ pc["r1"] = "done"
    /\ dur["r1"] = 700
    /\ msgs["r1"] = <<"info_too_long", "exporting", "upload_csv">>

\* C7: the paths of concurrently handled requests are disjoint: no file is
\* written by two requests, and a request awaiting its merge or its delivery
\* still has the files it created.
C7_PathsRequestScoped ==
    /\ \A p \in AllPaths : Cardinality(fs[p]) <= 1
    /\ \A r \in Requests :
         /\ pc[r] = "merge" => fs[video_path(vid[r])] = {r} /\ fs[audio_path(vid[r])] = {r}
         /\ pc[r] \in {"avs_notice", "avs_upload", "avs_inline"} => fs[output_path(vid[r])] = {r}

\* C9: when auto_video_send, given a URL, has returned, the local file that
\* download_video created no longer exists.
C9_DownloadedFileRemoved ==
    \A r \in Requests :
        (pc[r] = "avs_returned" /\ file_name[r] # "-")
            => ~Exists(download_video_path(file_name[r]))

\* C10: when a download has failed, neither the merge nor the delivery is
\* called, and once both download tasks have stopped and the handler's
\* finally clause has run, neither stream file exists.
C10_NoStreamFileAfterFailedGather ==
    \A r \in Requests :
        (\E k \in StreamTasks : dl[r][k] = "failed")
            => /\ called[r] \cap {"merge_file_to_mp4", "auto_video_send"} = {}
               /\ ((\A k \in StreamTasks : Stopped(r, k)) /\ pc[r] = "raised")
                     => ~Exists(video_path(vid[r])) /\ ~Exists(audio_path(vid[r]))

\* every comment line the answers of the API hold, page after page, a null
\* 'replies' counting for none
ExpectedPage(p) ==
    LET rs == api_comments.pages[p].replies
        RECURSIVE From(_)
        From(j) == IF j > Len(rs) THEN <<>>
                   ELSE <<FormatComment(p, j)>>
                          \o (IF rs[j] = 1 THEN <<FormatReply(p, j, 1)>> ELSE <<>>)
                          \o From(j + 1)
    IN  From(1)
ExpectedComments == ExpectedPage(1) \o ExpectedPage(2)

RowsAreZipLongest ==
    LET n == Len(danmaku_list)
        m == Len(comments_list)
    IN  /\ Len(rows) = 1 + Max(n, m)
        /\ rows[1] = <<"danmaku", "comment">>
        /\ \A i \in 1 .. Max(n, m) :
             /\ rows[i + 1][1] = (IF i <= n THEN danmaku_list[i] ELSE "")
             /\ rows[i + 1][2] = (IF i <= m THEN comments_list[i] ELSE "")

\* C8 (as claimed): the file holds the header and max(N, M) rows, row i with
\* danmaku i and comment i and "" past the end of the shorter list, and a
\* fetch that failed contributes the empty list.
C8_FailedFetchIsEmptyList ==
    cpc["writer"] = "written"
        => /\ RowsAreZipLongest
           /\ "danmaku" \in caught => danmaku_list = <<>>
           /\ "comments" \in caught => comments_list = <<>>

\* C8 (amended): the file holds the header and max(N, M) rows, row i with
\* danmaku i and comment i and "" past the end of the shorter list; a danmaku
\* fetch that failed contributes the empty list, a comment fetch that failed
\* contributes the comment lines it had appended before the failure, a prefix
\* of what the API holds.
C8_RowsZipLongestOfRetrieved ==
    cpc["writer"] = "written"
        => /\ RowsAreZipLongest
           /\ Exists(csv_path(vid["r1"]))
           /\ danmaku_list = (IF api_danmaku.ok THEN api_danmaku.texts ELSE <<>>)
           /\ "danmaku" \in caught <=> ~api_danmaku.ok
           /\ IsPrefix(comments_list, ExpectedComments)

\* C8 witness: the comment fetch failed after it had appended more lines than
\* there are danmaku, and the file was written.
C8_Witness ==
    /\ cpc["writer"] = "written"
    /\ "comments" \in caught
    /\ Len(danmaku_list) > 0
    /\ Len(comments_list) > Len(danmaku_list)
    /\ Len(rows) = 1 + Len(comments_list)
=============================================================================
